---- MODULE Spec2Model ----
(***************************************************************************)
(* Model of the Pusha back-end (src/src/main.py, src/src/validate.py):     *)
(* the JSON state file, the wall clock, the 1/second limiter in front of   *)
(* the routes, Telegram initData verification and the /state, /pet and     *)
(* /webhook handlers.                                                      *)
(*                                                                         *)
(* Time is counted in whole seconds relative to process start.  A request  *)
(* passes the limiter middleware first and may then wait (body receipt,    *)
(* other requests on the event loop) before its handler runs.  The handler *)
(* bodies contain no await, so each runs to completion on the event loop:  *)
(* one action per handler.                                                 *)
(***************************************************************************)
EXTENDS Integers, FiniteSets, Sequences, Bags, TLC

VARIABLES
    file,       \* contents of STATE_FILE (state.json)
    now,        \* time.time(), whole seconds
    limiter,    \* limiter storage: the windows that are open
    inflight,   \* bag of requests past the limiter middleware, handler not yet run
    nreq,       \* number of requests received so far
    last,       \* the response the latest step sent, if it sent one
    hist        \* history per identity: accepted pets and whether all were exact

vars == <<file, now, limiter, inflight, nreq, last, hist>>

----------------------------------------------------------------------------
\* Program constants

DECAY_PER_HOUR == 4
BOOST_ON_PET == 5
DefaultHappiness == 80
SecondsPerHour == 3600
Lifetime == 3600
LimitWindow == 1
MaxHappiness == 100
MinHappiness == 0
BOT_TOKEN == 11

\* Bounds of the model

MaxHours == 1
MaxReqs == 2
MaxAuthReqs == 1
MaxCalls == 2
MaxDecayHours == 3

\* the time in which one point of happiness decays
QuarterHour == SecondsPerHour \div DECAY_PER_HOUR

\* Sampled clock readings: both sides of the limiter window, of one decay point and
\* of the token lifetime, and the whole hours
Times ==
    {0, QuarterHour - LimitWindow, QuarterHour, Lifetime, Lifetime + 1}
    \cup { k * SecondsPerHour : k \in 0..MaxHours }

\* Telegram user ids, and the addresses clients connect from
UserIds == {123, 456}
Addrs == {"10.0.0.1", "10.0.0.2"}

\* str(init.user.id)
Str(id) == IF id = 123 THEN "123" ELSE "456"

Uids == { Str(id) : id \in UserIds }

NoUser == "none"

----------------------------------------------------------------------------
\* initData tokens

HashMod == 16

\* HMAC-SHA256 of the data-check string under the key derived from the secret,
\* reduced to a small digest space
Sign(secret, id, auth_date) == (secret * 7 + id * 3 + auth_date + 1) % HashMod

\* a digest with one character changed
Alter(h) == (h + 1) % HashMod

Garbage == [fmt |-> "garbage", id |-> 123, auth_date |-> 0, hash |-> 0]

\* a token issued at process start for user i, as Telegram signs it
Signed(i) == [fmt |-> "full", id |-> i, auth_date |-> 0, hash |-> Sign(BOT_TOKEN, i, 0)]

\* the same fields without the hash field
NoHash(i) == [Signed(i) EXCEPT !.fmt = "nohash", !.hash = 0]

\* the same fields with the hash changed
Tampered(i) == [Signed(i) EXCEPT !.hash = Alter(@)]

\* what Telegram issues to the mini-app's users
GoodTokens == { Signed(i) : i \in UserIds }

Tokens == {Garbage, NoHash(123), Tampered(123)} \cup GoodTokens

\* InitData.parse: fails on an unparseable string or a missing hash field
ParseOK(token) == token.fmt = "full"

\* InitData.validate: signature, then age
SignatureOK(token, bot_token) == token.hash = Sign(bot_token, token.id, token.auth_date)

Expired(token, lifetime, t) == token.auth_date + lifetime < t

Validate(token, bot_token, lifetime, t) ==
    SignatureOK(token, bot_token) /\ ~Expired(token, lifetime, t)

\* get_init_data answering a parse failure like a failed validation
get_init_data_one_status(token, bot_token, t) ==
    IF ~ParseOK(token) \/ ~Validate(token, bot_token, Lifetime, t)
    THEN [status |-> 403, uid |-> NoUser]
    ELSE [status |-> 200, uid |-> Str(token.id)]

\* get_init_data dropping the result of init.validate
get_init_data_unvalidated(token, bot_token, t) ==
    IF ~ParseOK(token) THEN [status |-> 400, uid |-> NoUser]
    ELSE [status |-> 200, uid |-> Str(token.id)]

\* get_init_data validating without a lifetime
get_init_data_no_lifetime(token, bot_token, t) ==
    IF ~ParseOK(token) THEN [status |-> 400, uid |-> NoUser]
    ELSE IF ~SignatureOK(token, bot_token) THEN [status |-> 403, uid |-> NoUser]
    ELSE [status |-> 200, uid |-> Str(token.id)]

\* get_init_data: 400 on a parse failure, 403 on a failed validation
get_init_data(token, bot_token, t) ==
    IF ~ParseOK(token) THEN [status |-> 400, uid |-> NoUser]
    ELSE IF ~Validate(token, bot_token, Lifetime, t) THEN [status |-> 403, uid |-> NoUser]
    ELSE [status |-> 200, uid |-> Str(token.id)]

----------------------------------------------------------------------------
\* Persistence helpers

EmptyDb == [u \in {} |-> 0]

\* json.load of the file; a file that is not JSON reads as {}
read_db(f) == IF f.ok THEN f.db ELSE EmptyDb

\* STATE_FILE.open() or the decoding of its bytes raises: read_db catches
\* json.JSONDecodeError only, so the exception leaves the handler
read_db_raises(f) == ~f.readable

write_db(db) == [ok |-> TRUE, db |-> db, readable |-> TRUE]

\* a default record dated at process start
default_state_at_start(t) == [happiness |-> DefaultHappiness, last_pet |-> 0]

default_state(t) == [happiness |-> DefaultHappiness, last_pet |-> t]

\* db.get(uid, default_state())
Fetch(db, uid, t) == IF uid \in DOMAIN db THEN db[uid] ELSE default_state(t)

\* a mapping that holds the one record only
Put_alone(db, uid, rec) == [u \in {uid} |-> rec]

Put(db, uid, rec) == [u \in DOMAIN db \cup {uid} |-> IF u = uid THEN rec ELSE db[u]]

----------------------------------------------------------------------------
\* Domain logic

\* int(x) of Python for x = n / d, d > 0: truncation toward zero
IntTrunc(n, d) == IF n >= 0 THEN n \div d ELSE -((-n) \div d)

\* the decay with the elapsed time taken in minutes instead of hours
DecayPoints_per_minute(rec, t) ==
    IntTrunc((t - rec.last_pet) * DECAY_PER_HOUR * 60, SecondsPerHour)

\* the decay rounded to the nearest point
DecayPoints_rounded(rec, t) ==
    IntTrunc(2 * (t - rec.last_pet) * DECAY_PER_HOUR + SecondsPerHour, 2 * SecondsPerHour)

\* int(hours * DECAY_PER_HOUR) with hours = (now - last_pet) / 3600
DecayPoints(rec, t) == IntTrunc((t - rec.last_pet) * DECAY_PER_HOUR, SecondsPerHour)

Max(a, b) == IF a >= b THEN a ELSE b
Min(a, b) == IF a <= b THEN a ELSE b

apply_decay(rec, t) ==
    [rec EXCEPT !.happiness = Max(0, rec.happiness - DecayPoints(rec, t))]

\* response_model=StateOut: happiness must satisfy ge=0, le=100
StateOutValid(rec) == rec.happiness >= MinHappiness /\ rec.happiness <= MaxHappiness

----------------------------------------------------------------------------
\* Rate limiting

\* a fresh Request object: request.state carries no user_id
NewRequest(ep, addr, token) ==
    [ep |-> ep, addr |-> addr, token |-> token, user_id |-> NoUser]

\* getattr(request.state, "user_id", get_remote_address(request))
key_by_user_id(req) == IF req.user_id # NoUser THEN req.user_id ELSE req.addr

Keys == Addrs \cup Uids

Endpoints == {"state", "pet", "webhook"}

\* what the handler will see of a request: the route and the body
Body(req) == [ep |-> req.ep, token |-> req.token]

\* default_limits=["1/second"]: one hit per key, route and window
LimitExceeded(lim, key, ep, t) ==
    \E w \in lim : w.key = key /\ w.ep = ep /\ w.until > t

\* the windows of other keys and routes, and those of this one that have not ended
Others(lim, key, ep) == { w \in lim : w.key # key \/ w.ep # ep }

\* the window that a hit opens; token remembers the request that was let through
LimitHit(lim, key, t, req) ==
    Others(lim, key, req.ep)
    \cup { [key |-> key, ep |-> req.ep, until |-> t + LimitWindow, token |-> req.token] }

\* the storage drops windows that have ended
Purge(lim, t) == { w \in lim : w.until > t }

----------------------------------------------------------------------------
\* Routes: the outcome of a handler run at time t on file contents f

NoRec == [happiness |-> -1, last_pet |-> -1]

\* /state writing the decayed record back
state_persisting(f, token, t) ==
    LET init == get_init_data(token, BOT_TOKEN, t)
        db == read_db(f)
        rec == apply_decay(Fetch(db, init.uid, t), t)
    IN  IF init.status # 200 THEN [status |-> init.status, rec |-> NoRec, file |-> f]
        ELSE IF ~StateOutValid(rec) THEN [status |-> 500, rec |-> NoRec, file |-> f]
        ELSE [status |-> 200, rec |-> rec, file |-> write_db(Put(db, init.uid, rec))]

\* /state with apply_decay changing the stored record itself, as it does when read_db
\* hands out the stored object
state_decay_in_place(f, token, t) ==
    LET init == get_init_data(token, BOT_TOKEN, t)
        db == read_db(f)
        rec == apply_decay(Fetch(db, init.uid, t), t)
    IN  IF init.status # 200 THEN [status |-> init.status, rec |-> NoRec, file |-> f]
        ELSE [status |-> IF StateOutValid(rec) THEN 200 ELSE 500,
              rec |-> IF StateOutValid(rec) THEN rec ELSE NoRec,
              file |-> IF init.uid \in DOMAIN db THEN [f EXCEPT !.db[init.uid] = rec] ELSE f]

\* POST /state
state(f, token, t) ==
    LET init == get_init_data(token, BOT_TOKEN, t)
        rec == apply_decay(Fetch(read_db(f), init.uid, t), t)
    IN  IF init.status # 200 THEN [status |-> init.status, rec |-> NoRec, file |-> f]
        ELSE IF read_db_raises(f) THEN [status |-> 500, rec |-> NoRec, file |-> f]
        ELSE IF ~StateOutValid(rec) THEN [status |-> 500, rec |-> NoRec, file |-> f]
        ELSE [status |-> 200, rec |-> rec, file |-> f]

\* /pet storing the record as it is before the boost
pet_stored_before_boost(f, token, t) ==
    LET init == get_init_data(token, BOT_TOKEN, t)
        db == read_db(f)
        decayed == apply_decay(Fetch(db, init.uid, t), t)
        rec == [happiness |-> Min(100, decayed.happiness + BOOST_ON_PET), last_pet |-> t]
    IN  IF init.status # 200 THEN [status |-> init.status, rec |-> NoRec, file |-> f]
        ELSE [status |-> IF StateOutValid(rec) THEN 200 ELSE 500,
              rec |-> rec,
              file |-> write_db(Put(db, init.uid, [decayed EXCEPT !.last_pet = t]))]

\* /pet starting from the default record whatever is stored
pet_from_default(f, token, t) ==
    LET init == get_init_data(token, BOT_TOKEN, t)
        db == read_db(f)
        decayed == apply_decay(default_state(t), t)
        rec == [happiness |-> Min(100, decayed.happiness + BOOST_ON_PET), last_pet |-> t]
    IN  IF init.status # 200 THEN [status |-> init.status, rec |-> NoRec, file |-> f]
        ELSE [status |-> IF StateOutValid(rec) THEN 200 ELSE 500,
              rec |-> rec,
              file |-> write_db(Put(db, init.uid, rec))]

\* /pet without the cap at 100
pet_uncapped(f, token, t) ==
    LET init == get_init_data(token, BOT_TOKEN, t)
        db == read_db(f)
        decayed == apply_decay(Fetch(db, init.uid, t), t)
        rec == [happiness |-> decayed.happiness + BOOST_ON_PET, last_pet |-> t]
    IN  IF init.status # 200 THEN [status |-> init.status, rec |-> NoRec, file |-> f]
        ELSE [status |-> IF StateOutValid(rec) THEN 200 ELSE 500,
              rec |-> rec,
              file |-> write_db(Put(db, init.uid, rec))]

\* /pet boosting first and decaying the boosted record
pet_boost_before_decay(f, token, t) ==
    LET init == get_init_data(token, BOT_TOKEN, t)
        db == read_db(f)
        fetched == Fetch(db, init.uid, t)
        boosted == [fetched EXCEPT !.happiness = Min(100, @ + BOOST_ON_PET)]
        rec == [happiness |-> apply_decay(boosted, t).happiness, last_pet |-> t]
    IN  IF init.status # 200 THEN [status |-> init.status, rec |-> NoRec, file |-> f]
        ELSE [status |-> IF StateOutValid(rec) THEN 200 ELSE 500,
              rec |-> rec,
              file |-> write_db(Put(db, init.uid, rec))]

\* /pet storing for the user the token names before the token is validated
pet_persist_then_verify(f, token, t) ==
    LET init == get_init_data(token, BOT_TOKEN, t)
        uid == Str(token.id)
        db == read_db(f)
        decayed == apply_decay(Fetch(db, uid, t), t)
        rec == [happiness |-> Min(100, decayed.happiness + BOOST_ON_PET), last_pet |-> t]
    IN  IF ~ParseOK(token) THEN [status |-> init.status, rec |-> NoRec, file |-> f]
        ELSE IF init.status # 200
        THEN [status |-> init.status, rec |-> NoRec, file |-> write_db(Put(db, uid, rec))]
        ELSE [status |-> IF StateOutValid(rec) THEN 200 ELSE 500,
              rec |-> rec,
              file |-> write_db(Put(db, uid, rec))]

\* /pet storing the new record under every key of the mapping
pet_everyone(f, token, t) ==
    LET init == get_init_data(token, BOT_TOKEN, t)
        db == read_db(f)
        decayed == apply_decay(Fetch(db, init.uid, t), t)
        rec == [happiness |-> Min(100, decayed.happiness + BOOST_ON_PET), last_pet |-> t]
    IN  IF init.status # 200 THEN [status |-> init.status, rec |-> NoRec, file |-> f]
        ELSE [status |-> IF StateOutValid(rec) THEN 200 ELSE 500,
              rec |-> rec,
              file |-> write_db([u \in DOMAIN db \cup {init.uid} |-> rec])]

\* POST /pet
pet(f, token, t) ==
    LET init == get_init_data(token, BOT_TOKEN, t)
        db == read_db(f)
        decayed == apply_decay(Fetch(db, init.uid, t), t)
        rec == [happiness |-> Min(100, decayed.happiness + BOOST_ON_PET), last_pet |-> t]
    IN  IF init.status # 200 THEN [status |-> init.status, rec |-> NoRec, file |-> f]
        ELSE IF read_db_raises(f) THEN [status |-> 500, rec |-> NoRec, file |-> f]
        ELSE [status |-> IF StateOutValid(rec) THEN 200 ELSE 500,
              rec |-> rec,
              file |-> write_db(Put(db, init.uid, rec))]

\* POST /webhook
telegram_webhook(f) == [status |-> 200, rec |-> NoRec, file |-> f]

----------------------------------------------------------------------------
\* State machine

Response(ep, addr, token, out) ==
    [ep |-> ep, addr |-> addr, token |-> token,
     status |-> out.status, happiness |-> out.rec.happiness, last_pet |-> out.rec.last_pet]

NoResponse ==
    [ep |-> "none", addr |-> "none", token |-> Garbage,
     status |-> 0, happiness |-> -1, last_pet |-> -1]

\* state.json as found at start: just touched (empty, not JSON) or left by an earlier run
FiveHours == 5 * SecondsPerHour

Old(h) == [happiness |-> h, last_pet |-> -FiveHours]

Recent(h) == [happiness |-> h, last_pet |-> 0]

InitFiles ==
    { [ok |-> FALSE, db |-> EmptyDb, readable |-> TRUE],
      write_db(Put(EmptyDb, "123", Old(77))),
      write_db(Put(Put(EmptyDb, "123", Recent(95)), "456", Old(5))) }

StartHappiness(f, u) == Fetch(read_db(f), u, 0).happiness

Init ==
    /\ file \in InitFiles
    /\ now = 0
    /\ limiter = {}
    /\ inflight = EmptyBag
    /\ nreq = 0
    /\ last = NoResponse
    /\ hist = [u \in Uids |-> [n |-> 0, exact |-> TRUE, raced |-> FALSE,
                               fresh |-> u \notin DOMAIN read_db(file),
                               h0 |-> StartHappiness(file, u)]]

\* SlowAPIMiddleware: the limiter decides before the route handler runs
Arrive(ep, addr, token) ==
    /\ LET req == NewRequest(ep, addr, token)
           key == key_by_user_id(req)
       IN  IF LimitExceeded(limiter, key, ep, now)
           THEN /\ last' = Response(ep, addr, token, [status |-> 429, rec |-> NoRec])
                /\ UNCHANGED <<limiter, inflight>>
           ELSE /\ limiter' = LimitHit(limiter, key, now, req)
                /\ inflight' = inflight (+) SetToBag({Body(req)})
                /\ last' = NoResponse
    /\ nreq' = nreq + 1
    /\ UNCHANGED <<file, now, hist>>

Take(req) == inflight (-) SetToBag({req})

HandleState(req) ==
    /\ BagIn(req, inflight)
    /\ req.ep = "state"
    /\ LET out == state(file, req.token, now)
       IN  /\ file' = out.file
           /\ last' = Response(req.ep, "none", req.token, out)
    /\ inflight' = Take(req)
    /\ UNCHANGED <<now, limiter, nreq, hist>>

\* another /pet with the same token is in flight while this one runs
Overlaps(req) == CopiesIn(req, inflight) >= 2

HandlePet(req) ==
    /\ BagIn(req, inflight)
    /\ req.ep = "pet"
    /\ LET out == pet(file, req.token, now)
           init == get_init_data(req.token, BOT_TOKEN, now)
           u == init.uid
           before == Fetch(read_db(file), u, now)
       IN  /\ file' = out.file
           /\ last' = Response(req.ep, "none", req.token, out)
           /\ hist' = IF init.status # 200 \/ read_db_raises(file) THEN hist
                      ELSE [hist EXCEPT ![u] =
                              [n |-> @.n + 1,
                               exact |-> /\ @.exact
                                         /\ DecayPoints(before, now) = 0
                                         /\ before.happiness + BOOST_ON_PET <= MaxHappiness,
                               raced |-> @.raced \/ Overlaps(req),
                               fresh |-> @.fresh,
                               h0 |-> @.h0]]
    /\ inflight' = Take(req)
    /\ UNCHANGED <<now, limiter, nreq>>

HandleWebhook(req) ==
    /\ BagIn(req, inflight)
    /\ req.ep = "webhook"
    /\ LET out == telegram_webhook(file)
       IN  /\ file' = out.file
           /\ last' = Response(req.ep, "none", req.token, out)
    /\ inflight' = Take(req)
    /\ UNCHANGED <<now, limiter, nreq, hist>>

\* time passes
Tick(t) ==
    /\ t > now
    /\ now' = t
    /\ limiter' = Purge(limiter, t)
    /\ last' = NoResponse
    /\ UNCHANGED <<file, inflight, nreq, hist>>

\* the wall clock is set back (time.time() is not monotonic)
ClockSkew(t) ==
    /\ t < now
    /\ now' = t
    /\ limiter' = Purge(limiter, t)
    /\ last' = NoResponse
    /\ UNCHANGED <<file, inflight, nreq, hist>>

\* a client holding a token Telegram issued to it posts to /state or /pet
ClientRequest ==
    /\ nreq < MaxReqs
    /\ \E ep \in {"state", "pet"}, addr \in Addrs, token \in GoodTokens :
           Arrive(ep, addr, token)

\* Telegram posts a bot update to /webhook
BotUpdate ==
    /\ nreq < MaxReqs
    /\ \E addr \in Addrs : Arrive("webhook", addr, Garbage)

\* a client posts any string as initData
AnyRequest ==
    /\ nreq < MaxAuthReqs
    /\ \E ep \in {"state", "pet"}, addr \in Addrs, token \in Tokens :
           Arrive(ep, addr, token)

RunState == \E req \in BagToSet(inflight) : HandleState(req)

RunPet == \E req \in BagToSet(inflight) : HandlePet(req)

RunWebhook == \E req \in BagToSet(inflight) : HandleWebhook(req)

TimePasses == \E t \in Times : Tick(t)

ClockSetBack == \E t \in Times : ClockSkew(t)

\* the mini-app's clients
Next ==
    \/ ClientRequest
    \/ RunState
    \/ RunPet
    \/ TimePasses
    \/ ClockSetBack

Spec == Init /\ [][Next]_vars

\* the mini-app's clients and Telegram's bot updates
NextHook ==
    \/ ClientRequest
    \/ BotUpdate
    \/ RunState
    \/ RunPet
    \/ RunWebhook
    \/ TimePasses

SpecHook == Init /\ [][NextHook]_vars

\* the same service, with clients that present any string as initData
NextAuth ==
    \/ AnyRequest
    \/ RunState
    \/ RunPet
    \/ TimePasses
    \/ ClockSetBack

SpecAuth == Init /\ [][NextAuth]_vars

\* state.json that cannot be opened or decoded (permissions, bytes that are not UTF-8)
Unreadable == [ok |-> FALSE, db |-> EmptyDb, readable |-> FALSE]

InitStore ==
    /\ file \in InitFiles \cup {Unreadable}
    /\ now = 0
    /\ limiter = {}
    /\ inflight = EmptyBag
    /\ nreq = 0
    /\ last = NoResponse
    /\ hist = [u \in Uids |-> [n |-> 0, exact |-> TRUE, raced |-> FALSE,
                               fresh |-> u \notin DOMAIN read_db(file),
                               h0 |-> StartHappiness(file, u)]]

\* the service started on a state file in any condition
SpecStore == InitStore /\ [][NextHook]_vars

\* apply_decay called directly on a record, as tests/test_domain.py does: the record
\* is held under user 123, last is what the latest call returned
DecayHappiness == {0, 3, 11, 12, 13, 78, 80, 90, 100}

DecayElapsed ==
    {-QuarterHour, -1, 0, 1, QuarterHour - 1, QuarterHour, QuarterHour + 1,
     SecondsPerHour - 1}
    \cup { k * SecondsPerHour : k \in 0..MaxDecayHours }

DecayClocks == {0, QuarterHour}

InitDecay ==
    /\ \E h \in DecayHappiness, e \in DecayElapsed, t \in DecayClocks :
           /\ now = t
           /\ file = write_db(Put(EmptyDb, "123", [happiness |-> h, last_pet |-> t - e]))
    /\ limiter = {}
    /\ inflight = EmptyBag
    /\ nreq = 0
    /\ last = NoResponse
    /\ hist = [u \in Uids |-> [n |-> 0, exact |-> TRUE, raced |-> FALSE,
                               fresh |-> u \notin DOMAIN read_db(file),
                               h0 |-> StartHappiness(file, u)]]

\* rec = apply_decay(rec): the first call gets the record, a later call gets what the
\* call before it returned (the same dict, changed in place)
ApplyDecay ==
    /\ nreq < MaxCalls
    /\ LET rec == IF nreq = 0 THEN read_db(file)["123"]
                  ELSE [happiness |-> last.happiness, last_pet |-> last.last_pet]
       IN  last' = Response("apply_decay", "none", Garbage,
                            [status |-> 200, rec |-> apply_decay(rec, now)])
    /\ nreq' = nreq + 1
    /\ UNCHANGED <<file, now, limiter, inflight, hist>>

SpecDecay == InitDecay /\ [][ApplyDecay]_vars

TypeOK ==
    /\ file.ok \in BOOLEAN
    /\ file.readable \in BOOLEAN
    /\ DOMAIN file.db \subseteq Uids
    /\ now \in Times
    /\ nreq \in 0..(MaxReqs + MaxAuthReqs)

----------------------------------------------------------------------------
\* Properties

Stored(u) == read_db(file)[u]

HasRecord(u) == u \in DOMAIN read_db(file)

\* the latest step ran a route handler, which answered
Handled == last.status \notin {0, 429}

\* the identity a token names
TokenUid(token) == Str(token.id)

\* the request received in this step
Arriving(b) ==
    /\ nreq' = nreq + 1
    /\ \/ last'.status = 429 /\ Body(last') = b
       \/ last' = NoResponse /\ inflight' = inflight (+) SetToBag({b})

\* a limiter window is open that was opened by a request with body b
WindowOpenFor(b) ==
    \E w \in limiter : w.until > now /\ w.ep = b.ep /\ w.token = b.token

\* C1: while every accepted /pet of an identity saw zero decay and stayed under the
\* cap, the stored happiness is the starting happiness plus 5 per accepted /pet,
\* also when the requests were in flight together (10 after two).
C1_NoLostBoost ==
    \A u \in Uids :
        (hist[u].n >= 1 /\ hist[u].exact) =>
            /\ HasRecord(u)
            /\ Stored(u).happiness = hist[u].h0 + BOOST_ON_PET * hist[u].n

\* two /pet requests of one identity were in flight together and both have completed
C1_Witness ==
    \E u \in Uids :
        /\ hist[u].raced /\ hist[u].exact /\ hist[u].n = 2
        /\ Stored(u).happiness = hist[u].h0 + 10

\* C2: a step that answers a /state request leaves the state file as it was.
C2_StateNeverPersists == [][last'.ep = "state" => file' = file]_vars

\* /state returned 57 for a record stored five hours ago as 77, which is still stored
C2_Witness ==
    /\ last.ep = "state" /\ last.status = 200 /\ last.happiness = 57
    /\ HasRecord("123")
    /\ Stored("123") = Old(77)

\* C3: every stored record has happiness in [0, 100].
C3_HappinessInRange ==
    \A u \in DOMAIN read_db(file) :
        Stored(u).happiness >= 0 /\ Stored(u).happiness <= 100

\* a second /pet on a record that started at 95 was capped at 100
C3_Witness ==
    /\ last.ep = "pet" /\ last.status = 200
    /\ hist["123"].n = 2 /\ hist["123"].h0 = 95
    /\ ~hist["123"].exact
    /\ Stored("123").happiness = 100

\* C4: the happiness /state returns is never greater than the stored happiness,
\* whatever the clock reads.
C4_DecayNeverIncreases ==
    (last.ep = "state" /\ last.status = 200 /\ HasRecord(TokenUid(last.token))) =>
        last.happiness <= Stored(TokenUid(last.token)).happiness

\* C5: a /pet of an identity that arrives while the window opened by another /pet
\* of that identity is open is answered 429 and changes nothing.
C5_SecondPetLimited ==
    [][\A tok \in GoodTokens :
          LET b == [ep |-> "pet", token |-> tok]
          IN  (Arriving(b) /\ WindowOpenFor(b)) =>
                  /\ last'.status = 429
                  /\ file' = file
                  /\ inflight' = inflight]_vars

\* C6: the limiter keys on the identity: a request of an authenticated identity is
\* answered 429 exactly when the window that an earlier request of that identity
\* opened on the route is still open, whatever the addresses.
C6_KeyedOnIdentity ==
    [][\A tok \in GoodTokens, ep \in {"state", "pet"} :
          LET b == [ep |-> ep, token |-> tok]
          IN  (Arriving(b) /\ get_init_data(tok, BOT_TOKEN, now).status = 200) =>
                  (last'.status = 429 <=> WindowOpenFor(b))]_vars

C8_AuthOutcomes ==
    Handled =>
        LET tok == last.token
            malformed == tok.fmt \in {"garbage", "nohash"}
            forged == tok.hash # Sign(BOT_TOKEN, tok.id, tok.auth_date)
            stale == tok.auth_date + 3600 < now
        IN  /\ last.status = 400 <=> malformed
            /\ last.status = 403 <=> (~malformed /\ (forged \/ stale))

\* a token without the hash field was answered 400
C8_Witness == last.status = 400 /\ last.token = NoHash(123)

\* C9: a token whose hash differs from the HMAC of its fields is answered 403 and
\* the response carries no record.
C9_AlteredHashRejected ==
    (/\ Handled
     /\ last.token.fmt = "full"
     /\ last.token.hash # Sign(BOT_TOKEN, last.token.id, last.token.auth_date))
    => (last.status = 403 /\ last.happiness = -1 /\ last.last_pet = -1)

\* the token with one character of the hash changed was answered 403
C9_Witness == last.status = 403 /\ last.token = Tampered(123) /\ now <= Lifetime

\* C10: a correctly signed token handled more than 3600 seconds after its auth_date
\* is answered 403, also when it was accepted before.
C10_ExpiredRejected ==
    (/\ Handled
     /\ last.ep \in {"state", "pet"}
     /\ last.token.fmt = "full"
     /\ now > last.token.auth_date + 3600)
    => last.status = 403

\* the token of an identity whose /pet was accepted earlier is answered 403 at 3601
C10_Witness ==
    /\ last.status = 403 /\ last.token = Signed(123)
    /\ hist["123"].n = 1
    /\ now = Signed(123).auth_date + Lifetime + 1

\* C11: as long as no accepted /pet of an identity saw decay or the cap, every /state
\* answer for its stored record is the happiness the latest interaction left (the
\* starting happiness plus 5 per accepted /pet) less the whole points for the time
\* since that interaction, however many /state requests were answered before.
C11_NoDoublePenalty ==
    \A u \in Uids :
        (/\ last.ep = "state" /\ last.status = 200 /\ TokenUid(last.token) = u
         /\ HasRecord(u) /\ hist[u].exact)
        => last.happiness =
               Max(0, hist[u].h0 + BOOST_ON_PET * hist[u].n - DecayPoints(Stored(u), now))

\* two /state requests of user 123 arrived from two addresses in one second and both
\* were answered; the second answer is 57 for the record stored five hours ago as 77
C11_Witness ==
    /\ nreq = 2 /\ inflight = EmptyBag
    /\ Cardinality({ w \in limiter : w.ep = "state" /\ w.token = Signed(123) }) = 2
    /\ last.ep = "state" /\ last.status = 200 /\ last.happiness = 57
    /\ hist["123"].n = 0
    /\ HasRecord("123")
    /\ Stored("123") = Old(77)

\* C12: when the state file cannot be read or is not JSON, an authenticated /state is
\* answered 200 with the default happiness 80, and an authenticated /pet 200 with 85.
C12_StorageDegrades ==
    [][(/\ last'.ep \in {"state", "pet"}
        /\ last'.status \notin {429, 400, 403}
        /\ (read_db_raises(file) \/ ~file.ok))
       => /\ last'.status = 200
          /\ last'.happiness =
                 IF last'.ep = "state" THEN DefaultHappiness
                 ELSE DefaultHappiness + BOOST_ON_PET]_vars

\* C13: an identity that has a record in the store has one after every step, whatever
\* /state, /pet or /webhook request of whatever identity the step handles.
C13_NoRecordDeleted ==
    [][\A u \in Uids : HasRecord(u) => u \in DOMAIN read_db(file')]_vars

\* user 123 had a record from the start and still has it after the first /pet of
\* user 456 created a second record
C13_Witness ==
    /\ last.ep = "pet" /\ last.status = 200 /\ last.token = Signed(456)
    /\ hist["456"].fresh /\ hist["456"].n = 1
    /\ ~hist["123"].fresh /\ hist["123"].n = 0
    /\ HasRecord("123") /\ HasRecord("456")

\* seconds between the record's timestamp and the clock
Elapsed(rec) == now - rec.last_pet

\* C14: for a record with happiness h and a non-negative elapsed time, apply_decay
\* returns happiness max(0, h - k), k the whole number of quarter hours elapsed
\* (floor of elapsed hours times 4), and the same timestamp; zero elapsed time
\* returns h.
C14_DecayFormula ==
    (last.ep = "apply_decay" /\ nreq = 1 /\ Elapsed(Stored("123")) >= 0) =>
        LET rec == Stored("123")
            e == Elapsed(rec)
        IN  /\ \E k \in 0..(DECAY_PER_HOUR * (e \div SecondsPerHour + 1)) :
                   /\ k * SecondsPerHour <= e * DECAY_PER_HOUR
                   /\ e * DECAY_PER_HOUR < (k + 1) * SecondsPerHour
                   /\ last.happiness = Max(0, rec.happiness - k)
            /\ last.last_pet = rec.last_pet
            /\ e = 0 => last.happiness = rec.happiness

\* three hours elapsed on happiness 90 returned 78
C14_Witness ==
    /\ last.ep = "apply_decay" /\ nreq = 1
    /\ Stored("123").happiness = 90
    /\ Elapsed(Stored("123")) = 3 * SecondsPerHour
    /\ last.happiness = 78

\* C15: a step that answers a /pet with 200 returns, and leaves stored for the
\* token's identity, the record with happiness min(100, d + 5), d the decayed
\* happiness of the record that was stored (or of the default record) at the clock,
\* and with the clock as timestamp.
C15_PetComposition ==
    [][(last'.ep = "pet" /\ last'.status = 200) =>
          LET u == TokenUid(last'.token)
              before == IF HasRecord(u) THEN Stored(u)
                        ELSE [happiness |-> DefaultHappiness, last_pet |-> now]
              d == Max(0, before.happiness - DecayPoints(before, now))
              after == [happiness |-> Min(100, d + 5), last_pet |-> now]
          IN  /\ last'.happiness = after.happiness
              /\ last'.last_pet = after.last_pet
              /\ u \in DOMAIN read_db(file')
              /\ read_db(file')[u] = after]_vars

\* a /pet on the record stored five hours ago as 5 decayed it to 0 and stored 5
C15_Witness ==
    /\ last.ep = "pet" /\ last.status = 200 /\ last.token = Signed(456)
    /\ hist["456"].n = 1 /\ hist["456"].h0 = 5
    /\ HasRecord("456")
    /\ Stored("456") = [happiness |-> 5, last_pet |-> now]
    /\ now = 0

\* C16: apply_decay applied to the record a call of apply_decay returned, at the
\* same clock reading, returns that record again.
C16_DecayIdempotent ==
    [][(last.ep = "apply_decay" /\ last'.ep = "apply_decay" /\ now' = now) =>
          /\ last'.happiness = last.happiness
          /\ last'.last_pet = last.last_pet]_vars

\* C17: a step that answers a /state or /pet request with 400 or 403 leaves the state
\* file as it was, so no record is created or changed.
C17_RejectedLeavesStore ==
    [][(last'.ep \in {"state", "pet"} /\ last'.status \in {400, 403}) =>
          /\ file' = file
          /\ read_db(file') = read_db(file)]_vars

\* a /pet with the tampered token of user 123 was answered 403 and the record stored
\* five hours ago as 77 is as it was
C17_Witness ==
    /\ last.ep = "pet" /\ last.status = 403 /\ last.token = Tampered(123)
    /\ HasRecord("123")
    /\ Stored("123") = Old(77)
    /\ ~HasRecord("456")

\* C18: a step that answers a /pet leaves every identity other than the token's with
\* the record it had, or without one if it had none, also while a /pet of another
\* identity is in flight.
C18_OnlyOwnRecord ==
    [][last'.ep = "pet" =>
          \A v \in Uids \ {TokenUid(last'.token)} :
              /\ HasRecord(v) <=> v \in DOMAIN read_db(file')
              /\ HasRecord(v) => read_db(file')[v] = Stored(v)]_vars

\* the /pet of user 123 was answered while the /pet of user 456 was in flight, and
\* the record of 456, stored five hours ago as 5, is as it was
C18_Witness ==
    /\ last.ep = "pet" /\ last.status = 200 /\ last.token = Signed(123)
    /\ BagIn([ep |-> "pet", token |-> Signed(456)], inflight)
    /\ HasRecord("456")
    /\ Stored("456") = Old(5)
    /\ hist["123"].n = 1

\* C19: a /state answered 200 for an identity that has no record in the store returns
\* happiness 80, whatever the clock reads.
C19_UnpettedNeverDecays ==
    (/\ last.ep = "state" /\ last.status = 200
     /\ ~HasRecord(TokenUid(last.token)))
    => last.happiness = DefaultHappiness

\* an hour after process start user 456, who has no record, is answered 80
C19_Witness ==
    /\ last.ep = "state" /\ last.status = 200 /\ last.token = Signed(456)
    /\ ~HasRecord("456")
    /\ now = SecondsPerHour
    /\ last.happiness = 80

\* C20: a step that answers a /pet of an identity with 200, less than 900 seconds
\* from the timestamp its previous accepted /pet stored, does not leave a lower
\* happiness stored than the previous /pet left.
C20_FrequentPetsNeverLose ==
    [][\A u \in Uids :
          (/\ last'.ep = "pet" /\ last'.status = 200 /\ TokenUid(last'.token) = u
           /\ hist[u].n >= 1 /\ HasRecord(u)
           /\ now - Stored(u).last_pet < QuarterHour
           /\ Stored(u).last_pet - now < QuarterHour)
          => read_db(file')[u].happiness >= Stored(u).happiness]_vars

\* two accepted /pet requests of an identity, the second 899 seconds after process
\* start, neither of which saw decay: 10 points gained
C20_Witness ==
    \E u \in Uids :
        /\ last.ep = "pet" /\ last.status = 200 /\ TokenUid(last.token) = u
        /\ hist[u].n = 2 /\ hist[u].exact
        /\ now = QuarterHour - 1
        /\ HasRecord(u)
        /\ Stored(u) = [happiness |-> hist[u].h0 + 10, last_pet |-> now]

====
